---- MODULE Spec2Model ----
(***************************************************************************)
(* JUnit HTML report generator                                             *)
(* (src/python/pants/backend/jvm/tasks/reports/junit_html_report.py).      *)
(*                                                                         *)
(* The module models the data objects ReportTestSuite and ReportTestCase,  *)
(* the XML parser (_parse_xml_file, _parse_xml_files), the aggregation in  *)
(* _generate_html and JUnitHtmlReport.report().                            *)
(*                                                                         *)
(* Conventions                                                             *)
(*  - a Python str that is ordered or lower-cased (a suite name) is a      *)
(*    sequence of code points; other strings are TLA+ strings;             *)
(*  - a formatted number is a sequence of one-character strings;           *)
(*  - an XML attribute dictionary is a function whose DOMAIN is the set of *)
(*    attributes present; an attribute's text is Num(n), the decimal       *)
(*    numeral of n, or NonNumeric;                                         *)
(*  - an XML document is its well-formedness and the sequence of its       *)
(*    testsuite and testcase elements in document order, which is the      *)
(*    order root.iter() visits them in;                                    *)
(*  - a float is modelled by an integer where only sums of whole numbers   *)
(*    are taken (elapsed times), and by exact rational arithmetic with the *)
(*    IEEE-754 rounding worked out bit by bit where it is formatted.       *)
(***************************************************************************)
EXTENDS Integers, Sequences, FiniteSets, TLC

VARIABLES
  xml_dir,      \* the input directory: file name -> document, or NoFile
  report_file,  \* <xml_dir>/reports/junit-report.html: NoFile or its content
  outcome,      \* how the last report() / _parse_xml_files() call ended
  testsuites,   \* the list the last _parse_xml_files() call returned
  values,       \* the values the last _generate_html() handed to the template
  counts,       \* arguments (test, error, failure, skipped count) of the static methods
  rate,         \* what success_rate(counts) returned, None before the call
  icon,         \* what ReportTestSuite.icon_class(counts) returned, None before the call
  tc,           \* a ReportTestCase object
  tc_ret,       \* what the last method called on tc returned
  suite,        \* a ReportTestSuite object (its __dict__)
  suite_ret     \* how the last suite.as_dict() call ended

vars == <<xml_dir, report_file, outcome, testsuites, values,
          counts, rate, icon, tc, tc_ret, suite, suite_ret>>

pipelineVars == <<xml_dir, report_file, outcome, testsuites, values>>
rateVars     == <<counts, rate, icon>>
caseVars     == <<tc, tc_ret>>
suiteVars    == <<suite, suite_ret>>

None   == [py |-> "None"]
NoFile == [py |-> "ENOENT"]
Returned(v) == [py |-> "return", value |-> v]   \* a call that returned v
Raised(e)   == [py |-> "raise", exc |-> e]      \* a call that raised exception e

(***************************************************************************)
(* Bounds                                                                  *)
(***************************************************************************)
MaxCount  == 3   \* small counts range over 0..MaxCount
MaxCases  == 2   \* test cases of a suite object in SpecSuite
MaxSuites == 3   \* testsuite elements of a directory in SpecParse (sorting)
MaxElems  == 4   \* elements of a directory in SpecParse (case lists)
MaxWrites == 3   \* elements the test run writes to the directory in Spec

(***************************************************************************)
(* Strings and sequences                                                   *)
(***************************************************************************)
\* F(x) with x worked out once, however often F uses it: a local variable.
At(F(_), x) == CHOOSE y \in {F(v) : v \in {x}} : TRUE

\* The sequences over S of length at most n.
RECURSIVE SeqsUpTo(_, _)
SeqsUpTo(S, n) ==
  IF n = 0 THEN {<<>>}
  ELSE LET shorter == SeqsUpTo(S, n - 1)
       IN shorter \cup {Append(q, x) : q \in shorter, x \in S}

Abs(n) == IF n < 0 THEN -n ELSE n

\* str.lower() on the code points: 'A'..'Z' (65..90) map to 'a'..'z'.
Lower(s) == [i \in DOMAIN s |-> IF s[i] >= 65 /\ s[i] <= 90 THEN s[i] + 32 ELSE s[i]]

\* s < t on Python strings: lexicographic by code point, a proper prefix first.
RECURSIVE StrLess(_, _)
StrLess(s, t) ==
  IF t = <<>> THEN FALSE
  ELSE IF s = <<>> THEN TRUE
  ELSE IF Head(s) # Head(t) THEN Head(s) < Head(t)
  ELSE StrLess(Tail(s), Tail(t))

\* (a1, a2) < (b1, b2) on Python tuples of two ints.
PairLess(a, b) == a[1] < b[1] \/ (a[1] = b[1] /\ a[2] < b[2])

\* The decimal digits of n >= 0, as str(n) writes them.
RECURSIVE Digits(_)
Digits(n) ==
  LET d == <<"0", "1", "2", "3", "4", "5", "6", "7", "8", "9">>[(n % 10) + 1]
  IN IF n < 10 THEN <<d>> ELSE Append(Digits(n \div 10), d)

(***************************************************************************)
(* float arithmetic behind '{:.2f}'.format(a * 100.0 / b)                  *)
(***************************************************************************)
\* x doubled until it reaches y (x, y > 0).
RECURSIVE ScaleUp(_, _)
ScaleUp(x, y) == IF x >= y THEN x ELSE ScaleUp(2 * x, y)

\* x doubled for as long as it stays within y (0 < x <= y).
RECURSIVE ScaleTo(_, _)
ScaleTo(x, y) == IF 2 * x > y THEN x ELSE ScaleTo(2 * x, y)

\* Long division: n more quotient bits of rem/den (rem < den); the result is
\* the remainder left and the last bit produced.
RECURSIVE DivBits(_, _, _, _)
DivBits(rem, den, n, last) ==
  IF n = 0 THEN [rem |-> rem, last |-> last]
  ELSE IF 2 * rem >= den THEN DivBits(2 * rem - den, den, n - 1, 1)
       ELSE DivBits(2 * rem, den, n - 1, 0)

\* The sign of fl(a/b) - a/b for integers a, b > 0 that a double holds exactly:
\* the division is rounded to 53 significant bits, ties to even.
FloatDivError(a, b) ==
  LET num == ScaleUp(a, b)
      den == ScaleTo(b, num)
      \* now den <= num < 2 * den: the leading bit is 1, 52 bits follow
      r   == DivBits(num - den, den, 52, 1)
  IN IF r.rem = 0 THEN 0
     ELSE IF 2 * r.rem > den THEN 1
     ELSE IF 2 * r.rem < den THEN -1
     ELSE IF r.last = 1 THEN 1 ELSE -1

\* '{:.2f}'.format(fl(a / b)) for b > 0: the double is written correctly
\* rounded to two decimals, a tie of the double itself going to the even digit.
\* A negative double keeps its sign even when it rounds to zero ('-0.00').
Format2f(a, b) ==
  LET m    == Abs(a)
      h0   == (m * 100) \div b
      r2   == 2 * ((m * 100) % b)
      up   == IF r2 > b THEN TRUE
              ELSE IF r2 < b THEN FALSE
              ELSE LET e == FloatDivError(m, b)
                   IN IF e = 0 THEN h0 % 2 = 1 ELSE e > 0
      h    == IF up THEN h0 + 1 ELSE h0
      frac == <<Digits((h % 100) \div 10)[1], Digits(h % 10)[1]>>
      body == Digits(h \div 100) \o <<".">> \o frac
  IN IF a < 0 THEN <<"-">> \o body ELSE body

(***************************************************************************)
(* ReportTestSuite: static methods                                         *)
(***************************************************************************)
\* success_rate with the skipped tests left out of the unsuccessful count.
success_rate_ignoring_skipped(test_count, error_count, failure_count, skipped_count) ==
  IF test_count # 0
  THEN Format2f((test_count - (error_count + failure_count)) * 100, test_count) \o <<"%">>
  ELSE <<"0", ".", "0", "0", "%">>

\* ReportTestSuite.success_rate
success_rate(test_count, error_count, failure_count, skipped_count) ==
  IF test_count # 0
  THEN LET unsuccessful_count == error_count + failure_count + skipped_count
       IN Format2f((test_count - unsuccessful_count) * 100, test_count) \o <<"%">>
  ELSE <<"0", ".", "0", "0", "%">>

\* icon_class with the all-skipped check made last instead of first.
suite_icon_class_skipped_last(test_count, error_count, failure_count, skipped_count) ==
  IF error_count > 0 THEN "test-error"
  ELSE IF failure_count > 0 THEN "test-failure"
  ELSE IF test_count = skipped_count THEN "test-skipped"
  ELSE "test-passed"

\* ReportTestSuite.icon_class
suite_icon_class(test_count, error_count, failure_count, skipped_count) ==
  IF test_count = skipped_count THEN "test-skipped"
  ELSE IF error_count > 0 THEN "test-error"
  ELSE IF failure_count > 0 THEN "test-failure"
  ELSE "test-passed"

(***************************************************************************)
(* ReportTestSuite and ReportTestCase objects                              *)
(***************************************************************************)
\* ReportTestCase.__init__: the object's attributes. time arrives as a number
\* (the parser's float() of the attribute is ParseFloat below).
ReportTestCase(name, time, failure, error, skipped) ==
  [cls |-> "ReportTestCase", name |-> name, time |-> time,
   failure |-> failure, error |-> error, skipped |-> skipped]

\* Python truth of a failure or error attribute: None is false, and the dict
\* the parser builds (it has two keys) is true.
Truthy(x) == x # None

\* ReportTestCase.icon_class
case_icon_class(self) ==
  IF self.skipped THEN "test-skipped"
  ELSE IF Truthy(self.error) THEN "test-error"
  ELSE IF Truthy(self.failure) THEN "test-failure"
  ELSE "test-passed"

\* ReportTestCase.as_dict: a new dict; the 'message' key is set only in the
\* branches that assign it.
case_as_dict(self) ==
  LET d == [name |-> self.name, time |-> self.time, icon_class |-> case_icon_class(self)]
  IN IF Truthy(self.error)
     THEN [name |-> d.name, time |-> d.time, icon_class |-> d.icon_class,
           message |-> self.error.message]
     ELSE IF Truthy(self.failure)
     THEN [name |-> d.name, time |-> d.time, icon_class |-> d.icon_class,
           message |-> self.failure.message]
     ELSE d

\* ReportTestSuite.__init__: the object's __dict__. The counts and the time
\* arrive as numbers (the constructor's int() and float() of the attribute
\* texts are ParseInt and ParseFloat below).
ReportTestSuite(name, tests, errors, failures, skipped, time, testcases) ==
  [name |-> name, tests |-> tests, errors |-> errors, failures |-> failures,
   skipped |-> skipped, time |-> time, testcases |-> testcases]

\* suite_lt without the lower-casing of the names.
suite_lt_case_sensitive(self, other) ==
  IF PairLess(<<other.errors, other.failures>>, <<self.errors, self.failures>>) THEN TRUE
  ELSE IF PairLess(<<self.errors, self.failures>>, <<other.errors, other.failures>>) THEN FALSE
  ELSE StrLess(self.name, other.name)

\* ReportTestSuite.__lt__
suite_lt(self, other) ==
  IF PairLess(<<other.errors, other.failures>>, <<self.errors, self.failures>>) THEN TRUE
  ELSE IF PairLess(<<self.errors, self.failures>>, <<other.errors, other.failures>>) THEN FALSE
  ELSE StrLess(Lower(self.name), Lower(other.name))

\* Whether x has an as_dict method: a ReportTestCase has, a dict has not.
HasAsDict(x) == "cls" \in DOMAIN x

\* ReportTestSuite.as_dict. d = self.__dict__ is the object's own attribute
\* dictionary, not a copy: the three assignments to d are assignments to the
\* object's attributes. map() (Python 2: a list, built at once) calls as_dict
\* on every element of self.testcases and raises AttributeError at the first
\* element that has no such method, before d['testcases'] is assigned.
\* The result is the object after the call and how the call ended.
suite_as_dict(self) ==
  LET d1 == [k \in DOMAIN self \cup {"success", "icon_class"} |->
               IF k = "success"
               THEN success_rate(self.tests, self.errors, self.failures, self.skipped)
               ELSE IF k = "icon_class"
               THEN suite_icon_class(self.tests, self.errors, self.failures, self.skipped)
               ELSE self[k]]
  IN IF \E i \in DOMAIN self.testcases : ~HasAsDict(self.testcases[i])
     THEN [self |-> d1, ret |-> Raised("AttributeError")]
     ELSE LET d2 == [d1 EXCEPT !.testcases =
                        [i \in DOMAIN self.testcases |-> case_as_dict(self.testcases[i])]]
          IN [self |-> d2, ret |-> Returned(d2)]

(***************************************************************************)
(* XML input                                                               *)
(***************************************************************************)
Num(n)     == [text |-> "numeral", n |-> n]   \* the attribute text str(n)
NonNumeric == [text |-> "other", n |-> 0]     \* an attribute text that is no number

\* int(text) and float(text): the number, or ValueError.
ParseInt(text)   == IF text.text = "numeral" THEN Returned(text.n) ELSE Raised("ValueError")
ParseFloat(text) == IF text.text = "numeral" THEN Returned(text.n) ELSE Raised("ValueError")

\* The first raising result of a sequence of results, None if there is none.
RECURSIVE FirstRaised(_)
FirstRaised(results) ==
  IF results = <<>> THEN None
  ELSE IF Head(results).py = "raise" THEN Head(results)
  ELSE FirstRaised(Tail(results))

WithTag(elems, tag) == SelectSeq(elems, LAMBDA e : e.tag = tag)

\* Lines 164-186: one <testcase> element to a ReportTestCase. Every <failure>
\* and <error> descendant has its 'type' read (KeyError when absent) and the
\* last one stays; then the 'name' is read (KeyError), and the constructor
\* converts the time, 0 when the attribute is absent (ValueError).
ParseTestCase(testcase) ==
  LET fs == WithTag(testcase.children, "failure")
      es == WithTag(testcase.children, "error")
      failure == IF fs = <<>> THEN None
                 ELSE [type |-> fs[Len(fs)].attrib.type, message |-> fs[Len(fs)].text]
      error   == IF es = <<>> THEN None
                 ELSE [type |-> es[Len(es)].attrib.type, message |-> es[Len(es)].text]
      skipped == WithTag(testcase.children, "skipped") # <<>>
      time    == IF "time" \in DOMAIN testcase.attrib
                 THEN ParseFloat(testcase.attrib.time) ELSE Returned(0)
  IN IF \E i \in DOMAIN fs : "type" \notin DOMAIN fs[i].attrib THEN Raised("KeyError")
     ELSE IF \E i \in DOMAIN es : "type" \notin DOMAIN es[i].attrib THEN Raised("KeyError")
     ELSE IF "name" \notin DOMAIN testcase.attrib THEN Raised("KeyError")
     ELSE IF time.py = "raise" THEN time
     ELSE Returned(ReportTestCase(testcase.attrib.name, time.value, failure, error, skipped))

\* Lines 189-197: one <testsuite> element to a ReportTestSuite. The arguments
\* are read first (KeyError for an absent name, tests, errors, failures or
\* time; skipped defaults to 0), then the constructor converts them in the
\* order tests, errors, failures, skipped, time (ValueError).
ParseTestSuite(testsuite, testcases) ==
  LET a == testsuite.attrib
      tests    == ParseInt(a.tests)
      errors   == ParseInt(a.errors)
      failures == ParseInt(a.failures)
      skipped  == IF "skipped" \in DOMAIN a THEN ParseInt(a.skipped) ELSE Returned(0)
      time     == ParseFloat(a.time)
      bad      == FirstRaised(<<tests, errors, failures, skipped, time>>)
  IN IF {"name", "tests", "errors", "failures", "time"} \ DOMAIN a # {}
     THEN Raised("KeyError")
     ELSE IF bad # None THEN bad
     ELSE Returned(ReportTestSuite(a.name, tests.value, errors.value, failures.value,
                                   skipped.value, time.value, testcases))

\* _parse_xml_file with each suite given the test cases that follow it in the
\* document up to the next suite, instead of all test cases of the file.
RECURSIVE CasesAfter(_, _)
CasesAfter(elems, i) ==
  IF i > Len(elems) \/ elems[i].tag = "testsuite" THEN <<>>
  ELSE <<ParseTestCase(elems[i]).value>> \o CasesAfter(elems, i + 1)

parse_xml_file_partitioned(doc) ==
  IF ~doc.wellformed THEN Raised("ParseError")
  ELSE
    LET cases == [i \in DOMAIN WithTag(doc.elems, "testcase") |->
                    ParseTestCase(WithTag(doc.elems, "testcase")[i])]
        at == SelectSeq([i \in DOMAIN doc.elems |-> i],
                        LAMBDA i : doc.elems[i].tag = "testsuite")
        suites == [k \in DOMAIN at |->
                     ParseTestSuite(doc.elems[at[k]], CasesAfter(doc.elems, at[k] + 1))]
    IN IF FirstRaised(cases) # None THEN FirstRaised(cases)
       ELSE IF FirstRaised(suites) # None THEN FirstRaised(suites)
       ELSE Returned([k \in DOMAIN suites |-> suites[k].value])

\* JUnitHtmlReport._parse_xml_file: ET.parse raises ParseError on a document
\* that is not well-formed; then all test cases of the document are built, in
\* document order, and then all suites, each with that one list of cases. The
\* first exception ends the call.
parse_xml_file(doc) ==
  IF ~doc.wellformed THEN Raised("ParseError")
  ELSE
    LET cases == [i \in DOMAIN WithTag(doc.elems, "testcase") |->
                    ParseTestCase(WithTag(doc.elems, "testcase")[i])]
        testcases == [i \in DOMAIN cases |-> cases[i].value]
        suites == [i \in DOMAIN WithTag(doc.elems, "testsuite") |->
                     ParseTestSuite(WithTag(doc.elems, "testsuite")[i], testcases)]
    IN IF FirstRaised(cases) # None THEN FirstRaised(cases)
       ELSE IF FirstRaised(suites) # None THEN FirstRaised(suites)
       ELSE Returned([i \in DOMAIN suites |-> suites[i].value])

\* list.sort() of a list of ReportTestSuite: a stable sort that compares with
\* __lt__ alone. Each element goes before the first element it is less than,
\* which for lists this short is where Python's binary insertion puts it.
RECURSIVE InsertSorted(_, _)
InsertSorted(x, sorted) ==
  IF sorted = <<>> THEN <<x>>
  ELSE IF suite_lt(x, Head(sorted)) THEN <<x>> \o sorted
  ELSE <<Head(sorted)>> \o InsertSorted(x, Tail(sorted))

RECURSIVE ListSort(_)
ListSort(list) ==
  IF list = <<>> THEN <<>>
  ELSE InsertSorted(list[Len(list)], ListSort(SubSeq(list, 1, Len(list) - 1)))

\* The files glob.glob(xml_dir/TEST-*.xml) can return: every file of the
\* directory once, in an order the file system chooses.
Existing(dir) == {f \in DOMAIN dir : dir[f] # NoFile}
GlobOrders(dir) ==
  {order \in SeqsUpTo(Existing(dir), Cardinality(Existing(dir))) :
     /\ Len(order) = Cardinality(Existing(dir))
     /\ \A i, j \in DOMAIN order : i # j => order[i] # order[j]}

\* Lines 151-153: the suites of the files, concatenated in glob order, up to
\* the first file that raises.
RECURSIVE ConcatSuites(_, _)
ConcatSuites(dir, order) ==
  IF order = <<>> THEN Returned(<<>>)
  ELSE LET first == parse_xml_file(dir[Head(order)])
           rest  == ConcatSuites(dir, Tail(order))
       IN IF first.py = "raise" THEN first
          ELSE IF rest.py = "raise" THEN rest
          ELSE Returned(first.value \o rest.value)

\* JUnitHtmlReport._parse_xml_files for one glob order.
parse_xml_files(dir, order) ==
  LET all == ConcatSuites(dir, order)
  IN IF all.py = "raise" THEN all ELSE Returned(ListSort(all.value))

(***************************************************************************)
(* SpecRate: the static methods applied to count tuples                    *)
(***************************************************************************)
\* Counts near the point where one test in test_count is 0.005 percent.
LargeCounts == {19999, 20000, 20001}
CountValues == (0..MaxCount) \cup LargeCounts

IdlePipeline ==
  /\ xml_dir = None /\ report_file = None /\ outcome = None
  /\ testsuites = None /\ values = None
IdleRate  == counts = None /\ rate = None /\ icon = None
IdleCase  == tc = None /\ tc_ret = None
IdleSuite == suite = None /\ suite_ret = None

InitRate ==
  /\ counts \in [tests : CountValues, errors : CountValues,
                 failures : CountValues, skipped : CountValues]
  /\ rate = None
  /\ icon = None
  /\ IdlePipeline /\ IdleCase /\ IdleSuite

CallSuccessRate ==
  /\ rate = None
  /\ rate' = Returned(success_rate(counts.tests, counts.errors, counts.failures,
                                   counts.skipped))
  /\ UNCHANGED <<counts, icon, pipelineVars, caseVars, suiteVars>>

CallIconClass ==
  /\ icon = None
  /\ icon' = Returned(suite_icon_class(counts.tests, counts.errors, counts.failures,
                                       counts.skipped))
  /\ UNCHANGED <<counts, rate, pipelineVars, caseVars, suiteVars>>

NextRate == CallSuccessRate \/ CallIconClass
SpecRate == InitRate /\ [][NextRate]_vars

DigitChars == {"0", "1", "2", "3", "4", "5", "6", "7", "8", "9"}
ZeroPercent == <<"0", ".", "0", "0", "%">>
Unsuccessful(c) == c.errors + c.failures + c.skipped

\* s is an optional '-', one or more digits, '.', exactly two digits, '%'.
TwoDecimalPercent(s) ==
  LET n == Len(s)
      first == IF s[1] = "-" THEN 2 ELSE 1
  IN /\ n >= first + 4
     /\ s[n] = "%"
     /\ s[n - 1] \in DigitChars /\ s[n - 2] \in DigitChars
     /\ s[n - 3] = "."
     /\ \A i \in first..(n - 4) : s[i] \in DigitChars

\* C5 as stated: for tests > 0 the success rate is a two-decimal percentage
\* that is '0.00%' if and only if tests = errors + failures + skipped, and for
\* tests = 0 it is '0.00%'.
C5_AsStated ==
  rate # None =>
    /\ counts.tests > 0 =>
         /\ TwoDecimalPercent(rate.value)
         /\ (rate.value = ZeroPercent) <=> (counts.tests = Unsuccessful(counts))
    /\ counts.tests = 0 => rate.value = ZeroPercent

\* C5 amended: for tests > 0 the success rate is a two-decimal percentage; it is
\* '0.00%' whenever tests = errors + failures + skipped, and for tests <= 20000
\* only then (above 20000 a positive rate below 0.005 also prints '0.00%');
\* for tests = 0 it is '0.00%'.
C5_SuccessRateZero ==
  rate # None =>
    /\ counts.tests > 0 =>
         /\ TwoDecimalPercent(rate.value)
         /\ counts.tests = Unsuccessful(counts) => rate.value = ZeroPercent
         /\ (counts.tests <= 20000 /\ rate.value = ZeroPercent)
              => counts.tests = Unsuccessful(counts)
    /\ counts.tests = 0 => rate.value = ZeroPercent

\* success_rate was called on a suite with one success in 20000 tests, the
\* largest suite for which one success still shows: it printed '0.01%'.
C5_Witness ==
  /\ rate # None
  /\ counts.tests = 20000 /\ counts.errors = 19999
  /\ counts.failures = 0 /\ counts.skipped = 0
  /\ rate.value = <<"0", ".", "0", "1", "%">>

\* C6: the suite status class is 'skipped' whenever tests = skipped, whatever
\* errors and failures are; otherwise 'error' if errors > 0, otherwise
\* 'failure' if failures > 0, otherwise 'passed'.
C6_SuiteIconClass ==
  icon # None =>
    /\ counts.tests = counts.skipped => icon.value = "test-skipped"
    /\ (counts.tests # counts.skipped /\ counts.errors > 0) => icon.value = "test-error"
    /\ (counts.tests # counts.skipped /\ counts.errors = 0 /\ counts.failures > 0)
         => icon.value = "test-failure"
    /\ (counts.tests # counts.skipped /\ counts.errors = 0 /\ counts.failures = 0)
         => icon.value = "test-passed"

\* icon_class was called on counts where everything is skipped and yet errors
\* and failures are reported.
C6_Witness ==
  /\ icon # None
  /\ counts.tests = counts.skipped /\ counts.tests > 0
  /\ counts.errors > 0 /\ counts.failures > 0
  /\ icon.value = "test-skipped"

(***************************************************************************)
(* Aggregation and report()                                                *)
(***************************************************************************)
RECURSIVE SumOf(_, _)
SumOf(list, field) ==
  IF list = <<>> THEN 0 ELSE list[1][field] + SumOf(Tail(list), field)

\* The external template engine: render_name('junit_report.html', values).
Render(vals) == [template |-> "junit_report.html", values |-> vals]

\* as_dict applied to each suite of the list in turn (line 225).
SuiteDicts(list) == [i \in DOMAIN list |-> suite_as_dict(list[i]).ret]

\* _generate_html with the error total accumulated from the failure counts.
generate_html_errors_from_failures(list) ==
  LET dicts == SuiteDicts(list)
      vals == [total_tests    |-> SumOf(list, "tests"),
               total_errors   |-> SumOf(list, "failures"),
               total_failures |-> SumOf(list, "failures"),
               total_skipped  |-> SumOf(list, "skipped"),
               total_time     |-> SumOf(list, "time"),
               total_success  |-> success_rate(SumOf(list, "tests"), SumOf(list, "failures"),
                                               SumOf(list, "failures"), SumOf(list, "skipped")),
               summary_icon_class |->
                   suite_icon_class(SumOf(list, "tests"), SumOf(list, "failures"),
                                    SumOf(list, "failures"), SumOf(list, "skipped")),
               testsuites |-> [i \in DOMAIN dicts |-> dicts[i].value]]
  IN [values |-> vals, html |-> Returned(Render(vals))]

\* JUnitHtmlReport._generate_html: the totals, the success rate and the icon
\* class of the totals, the display record of every suite, and the rendering.
\* An exception of an as_dict call ends it.
generate_html(list) ==
  LET dicts == SuiteDicts(list)
      vals == [total_tests    |-> SumOf(list, "tests"),
               total_errors   |-> SumOf(list, "errors"),
               total_failures |-> SumOf(list, "failures"),
               total_skipped  |-> SumOf(list, "skipped"),
               total_time     |-> SumOf(list, "time"),
               total_success  |-> success_rate(SumOf(list, "tests"), SumOf(list, "errors"),
                                               SumOf(list, "failures"), SumOf(list, "skipped")),
               summary_icon_class |->
                   suite_icon_class(SumOf(list, "tests"), SumOf(list, "errors"),
                                    SumOf(list, "failures"), SumOf(list, "skipped")),
               testsuites |-> [i \in DOMAIN dicts |-> dicts[i].value]]
  IN IF FirstRaised(dicts) # None
     THEN [values |-> None, html |-> FirstRaised(dicts)]
     ELSE [values |-> vals, html |-> Returned(Render(vals))]

\* What open(path, 'wb') leaves before anything is written.
EmptyFile == [template |-> "", values |-> None]
ReportPath == "reports/junit-report.html"

\* report() with the report file opened before the XML files are parsed.
report_open_first(dir, order, old_file) ==
  At(LAMBDA parsed :
       IF parsed.py = "raise"
       THEN [outcome |-> parsed, report_file |-> EmptyFile,
             testsuites |-> None, values |-> None]
       ELSE At(LAMBDA gen :
                 [outcome |-> Returned(ReportPath), report_file |-> gen.html.value,
                  testsuites |-> parsed.value, values |-> gen.values],
               generate_html(parsed.value)),
     parse_xml_files(dir, order))

\* JUnitHtmlReport.report for one glob order: parse (an exception leaves here,
\* before the report file is touched), make the directory, open the file for
\* writing (which creates or truncates it), generate the html (an exception
\* leaves the file empty), write it and return the path.
report(dir, order, old_file) ==
  At(LAMBDA parsed :
       IF parsed.py = "raise"
       THEN [outcome |-> parsed, report_file |-> old_file,
             testsuites |-> None, values |-> None]
       ELSE At(LAMBDA gen :
                 IF gen.html.py = "raise"
                 THEN [outcome |-> gen.html, report_file |-> EmptyFile,
                       testsuites |-> parsed.value, values |-> None]
                 ELSE [outcome |-> Returned(ReportPath), report_file |-> gen.html.value,
                       testsuites |-> parsed.value, values |-> gen.values],
               generate_html(parsed.value)),
     parse_xml_files(dir, order))

(***************************************************************************)
(* Directories of XML files                                                *)
(***************************************************************************)
FileNames == {"TEST-a.xml", "TEST-b.xml"}
EmptyDir  == [f \in FileNames |-> NoFile]
MalformedDoc == [wellformed |-> FALSE, elems |-> <<>>]

\* The test run writes one more element to file f, creating the file.
AppendElem(dir, f, e) ==
  [dir EXCEPT ![f] = IF dir[f] = NoFile THEN [wellformed |-> TRUE, elems |-> <<e>>]
                     ELSE [wellformed |-> TRUE, elems |-> Append(dir[f].elems, e)]]

TotalElems(dir) ==
  LET n(f) == IF dir[f] = NoFile THEN 0 ELSE Len(dir[f].elems)
  IN n("TEST-a.xml") + n("TEST-b.xml")

\* The directories of at most n elements over E.
RECURSIVE DirsUpTo(_, _)
DirsUpTo(E, n) ==
  IF n = 0 THEN {EmptyDir}
  ELSE LET smaller == DirsUpTo(E, n - 1)
       IN smaller \cup {AppendElem(d, f, e) : d \in smaller, f \in FileNames, e \in E}

SuiteElem(name, tests, errors, failures, time) ==
  [tag |-> "testsuite",
   attrib |-> [name |-> name, tests |-> Num(tests), errors |-> Num(errors),
               failures |-> Num(failures), time |-> Num(time)]]
CaseElem(name, children) ==
  [tag |-> "testcase", attrib |-> [name |-> name], children |-> children]
Without(elem, key) ==
  [elem EXCEPT !.attrib = [k \in DOMAIN elem.attrib \ {key} |-> elem.attrib[k]]]
With(elem, key, text) ==
  [elem EXCEPT !.attrib = [k \in DOMAIN elem.attrib \cup {key} |->
                             IF k = key THEN text ELSE elem.attrib[k]]]

\* Suite names "Ab", "aB" and "B": the first two are equal ignoring case, and
\* "B" is below "aB" by code point and above it ignoring case.
SuiteNames == {<<65, 98>>, <<97, 66>>, <<66>>}

(***************************************************************************)
(* Spec: a test run writes XML files, report() is called at any time       *)
(***************************************************************************)
MainElems ==
  { SuiteElem(<<65, 98>>, 2, 1, 0, 1),
    With(SuiteElem(<<66>>, 1, 0, 1, 2), "skipped", Num(1)),
    Without(SuiteElem(<<66>>, 1, 0, 0, 1), "tests"),
    With(SuiteElem(<<66>>, 1, 0, 0, 1), "errors", NonNumeric),
    CaseElem("t1", <<[tag |-> "failure", attrib |-> [type |-> "AssertionError"],
                      text |-> "boom"]>>) }

Init ==
  /\ xml_dir = EmptyDir
  /\ report_file = NoFile
  /\ outcome = None
  /\ testsuites = None
  /\ values = None
  /\ IdleRate /\ IdleCase /\ IdleSuite

\* The test run appends an element to a file of the directory.
WriteXml ==
  \E f \in FileNames, e \in MainElems :
    /\ TotalElems(xml_dir) < MaxWrites
    /\ IF xml_dir[f] = NoFile THEN TRUE ELSE xml_dir[f].wellformed
    /\ xml_dir' = AppendElem(xml_dir, f, e)
    /\ UNCHANGED <<report_file, outcome, testsuites, values, rateVars, caseVars, suiteVars>>

\* A file of the directory is cut short (the test run died while writing it):
\* what is left is not well-formed XML.
TruncateXml ==
  \E f \in FileNames :
    /\ xml_dir[f] # NoFile /\ xml_dir[f].wellformed
    /\ xml_dir' = [xml_dir EXCEPT ![f] = MalformedDoc]
    /\ UNCHANGED <<report_file, outcome, testsuites, values, rateVars, caseVars, suiteVars>>

\* JUnitHtmlReport.report()
Report ==
  \E order \in GlobOrders(xml_dir) :
    \E r \in {report(xml_dir, order, report_file)} :
       /\ outcome' = r.outcome
       /\ report_file' = r.report_file
       /\ testsuites' = r.testsuites
       /\ values' = r.values
       /\ UNCHANGED <<xml_dir, rateVars, caseVars, suiteVars>>

Next == WriteXml \/ TruncateXml \/ Report
Spec == Init /\ [][Next]_vars

Unparsable(dir) == {f \in Existing(dir) : parse_xml_file(dir[f]).py = "raise"}

\* C1: a report() call on a directory with a file that fails to parse (not
\* well-formed, or a required attribute missing or not a number) raises, and
\* leaves the report file as it was: absent if it was absent, with its old
\* content if it existed.
C1_FailedReportLeavesFile ==
  [][ (xml_dir' = xml_dir /\ Unparsable(xml_dir) # {} /\ outcome' # None)
        => (outcome'.py = "raise" /\ report_file' = report_file) ]_vars

\* report() raised on a directory with an unparsable file after an earlier
\* call had written a report, and the report is still there.
C1_Witness ==
  /\ outcome.py = "raise"
  /\ Unparsable(xml_dir) # {}
  /\ report_file # NoFile /\ report_file # EmptyFile
  /\ report_file.values.total_tests > 0

\* C7: the template values hold the sums of tests, errors, failures, skipped
\* and time over the parsed suites, and the success rate and icon class of
\* those sums; with no matching file the sums are zero, the success rate is
\* '0.00%', the icon class 'skipped', and the report file is written all the same.
C7_Totals ==
  [][ (xml_dir' = xml_dir /\ outcome'.py = "return") =>
        /\ values'.total_tests = SumOf(testsuites', "tests")
        /\ values'.total_errors = SumOf(testsuites', "errors")
        /\ values'.total_failures = SumOf(testsuites', "failures")
        /\ values'.total_skipped = SumOf(testsuites', "skipped")
        /\ values'.total_time = SumOf(testsuites', "time")
        /\ values'.total_success =
             success_rate(values'.total_tests, values'.total_errors,
                          values'.total_failures, values'.total_skipped)
        /\ values'.summary_icon_class =
             suite_icon_class(values'.total_tests, values'.total_errors,
                              values'.total_failures, values'.total_skipped)
        /\ report_file' = Render(values')
        /\ Existing(xml_dir) = {} =>
             /\ values'.total_tests = 0 /\ values'.total_errors = 0
             /\ values'.total_failures = 0 /\ values'.total_skipped = 0
             /\ values'.total_time = 0
             /\ values'.total_success = ZeroPercent
             /\ values'.summary_icon_class = "test-skipped" ]_vars

\* report() returned for two suites whose error and failure counts differ.
C7_Witness ==
  /\ outcome.py = "return"
  /\ Len(testsuites) = 2
  /\ values.total_tests = 3 /\ values.total_errors = 1 /\ values.total_failures = 1
  /\ values.total_skipped = 1 /\ values.total_time = 3
  /\ report_file = Render(values)

(***************************************************************************)
(* SpecParse: _parse_xml_files applied to a directory                      *)
(***************************************************************************)
\* (errors, failures) pairs: (1,0) against (0,2) tells the lexicographic order
\* from an order by the sum or by the failures, (0,2) against (0,0) involves
\* the second component.
SortKeys  == {<<1, 0>>, <<0, 2>>, <<0, 0>>}
SortElems == {SuiteElem(n, 2, k[1], k[2], 1) : n \in SuiteNames, k \in SortKeys}
ListElems == {SuiteElem(<<66>>, 2, 0, 0, 1), CaseElem("t1", <<>>), CaseElem("t2", <<>>)}

InitParse ==
  /\ xml_dir \in DirsUpTo(SortElems, MaxSuites) \cup DirsUpTo(ListElems, MaxElems)
  /\ outcome = None
  /\ testsuites = None
  /\ report_file = None /\ values = None
  /\ IdleRate /\ IdleCase /\ IdleSuite

\* JUnitHtmlReport._parse_xml_files(xml_dir)
ParseXmlFiles ==
  \E order \in GlobOrders(xml_dir) :
    /\ outcome = None
    /\ outcome' = parse_xml_files(xml_dir, order)
    /\ testsuites' = IF outcome'.py = "return" THEN outcome'.value ELSE None
    /\ UNCHANGED <<xml_dir, report_file, values, rateVars, caseVars, suiteVars>>

NextParse == ParseXmlFiles
SpecParse == InitParse /\ [][NextParse]_vars

Key(s) == <<s.errors, s.failures>>

\* C3: the list the parser returns is worst first: of two suites, the earlier
\* has the greater or equal (errors, failures) pair, compared
\* lexicographically, and with equal pairs the lower-cased name of the earlier
\* is less than or equal to that of the later.
C3_WorstFirst ==
  outcome.py = "return" =>
    \A i, j \in DOMAIN testsuites :
      i < j =>
        LET s == testsuites[i]
            t == testsuites[j]
        IN /\ ~PairLess(Key(s), Key(t))
           /\ Key(s) = Key(t) => ~StrLess(Lower(t.name), Lower(s.name))

\* The parser returned three suites: one with (1,0) named "B" before one with
\* (0,2) named "aB", and after that a third with (0,2) named "B", which is
\* below "aB" by code point.
C3_Witness ==
  /\ outcome.py = "return"
  /\ Len(testsuites) = 3
  /\ Key(testsuites[1]) = <<1, 0>> /\ testsuites[1].name = <<66>>
  /\ Key(testsuites[2]) = <<0, 2>> /\ testsuites[2].name = <<97, 66>>
  /\ Key(testsuites[3]) = <<0, 2>> /\ testsuites[3].name = <<66>>

\* C4: the sorted list is the same sequence whatever order the files were
\* enumerated in.
C4_OrderIndependent ==
  outcome.py = "return" =>
    \A order \in GlobOrders(xml_dir) : parse_xml_files(xml_dir, order) = outcome

CaseNames(elems) ==
  [i \in DOMAIN WithTag(elems, "testcase") |-> WithTag(elems, "testcase")[i].attrib.name]
SuiteCaseNames(s) == [i \in DOMAIN s.testcases |-> s.testcases[i].name]

\* C9: every suite made from a file carries the test cases of that whole file
\* in document order, and a file makes as many suites as it has testsuite
\* elements: the returned list has, for every case list, as many suites with
\* it as the files with that case list have testsuite elements.
C9_FlatCaseList ==
  outcome.py = "return" =>
    /\ \A f \in Existing(xml_dir) :
         LET r == parse_xml_file(xml_dir[f])
         IN /\ r.py = "return"
            /\ Len(r.value) = Len(WithTag(xml_dir[f].elems, "testsuite"))
            /\ \A i \in DOMAIN r.value :
                 SuiteCaseNames(r.value[i]) = CaseNames(xml_dir[f].elems)
    /\ \A i \in DOMAIN testsuites :
         LET names == SuiteCaseNames(testsuites[i])
             with == {f \in Existing(xml_dir) : CaseNames(xml_dir[f].elems) = names}
             count(f) == Len(WithTag(xml_dir[f].elems, "testsuite"))
         IN Cardinality({j \in DOMAIN testsuites : SuiteCaseNames(testsuites[j]) = names})
              = (IF "TEST-a.xml" \in with THEN count("TEST-a.xml") ELSE 0)
                + (IF "TEST-b.xml" \in with THEN count("TEST-b.xml") ELSE 0)

\* A file with two suites, the second after the file's test case, and another
\* file with a case of its own: both suites of the first file carry its case,
\* and neither carries the other file's.
C9_Witness ==
  /\ outcome.py = "return"
  /\ Len(testsuites) = 2
  /\ Existing(xml_dir) = FileNames
  /\ Len(WithTag(xml_dir["TEST-a.xml"].elems, "testsuite")) = 2
  /\ xml_dir["TEST-a.xml"].elems[2].tag = "testcase"
  /\ xml_dir["TEST-a.xml"].elems[3].tag = "testsuite"
  /\ CaseNames(xml_dir["TEST-a.xml"].elems) = <<"t1">>
  /\ CaseNames(xml_dir["TEST-b.xml"].elems) = <<"t2">>
  /\ Cardinality({i \in DOMAIN testsuites : SuiteCaseNames(testsuites[i]) = <<"t1">>}) = 2

(***************************************************************************)
(* SpecCase: the methods of one ReportTestCase                             *)
(***************************************************************************)
Messages == {"boom", "oops"}
FailureRecords == {None} \cup [type : {"AssertionError"}, message : Messages]
ErrorRecords   == {None} \cup [type : {"RuntimeError"}, message : Messages]

InitCase ==
  /\ tc \in {ReportTestCase(n, t, f, e, s) :
               n \in {"t1", "t2"}, t \in {0, 1}, f \in FailureRecords,
               e \in ErrorRecords, s \in BOOLEAN}
  /\ tc_ret = None
  /\ IdlePipeline /\ IdleRate /\ IdleSuite

CaseIconClass ==
  /\ tc_ret' = [method |-> "icon_class", value |-> case_icon_class(tc)]
  /\ UNCHANGED <<tc, pipelineVars, rateVars, suiteVars>>

CaseAsDict ==
  /\ tc_ret' = [method |-> "as_dict", value |-> case_as_dict(tc)]
  /\ UNCHANGED <<tc, pipelineVars, rateVars, suiteVars>>

NextCase == CaseIconClass \/ CaseAsDict
SpecCase == InitCase /\ [][NextCase]_vars

\* C2: a test case's status class follows the precedence error > failure >
\* skipped > passed: 'error' whenever an error is present, else 'failure'
\* whenever a failure is present, else 'skipped' when skipped, else 'passed'.
C2_CaseIconPrecedence ==
  (tc_ret # None /\ tc_ret.method = "icon_class") =>
    tc_ret.value = IF tc.error # None THEN "test-error"
                   ELSE IF tc.failure # None THEN "test-failure"
                   ELSE IF tc.skipped THEN "test-skipped"
                   ELSE "test-passed"

\* C8: a display record has a 'message' key exactly when the case has an error
\* or a failure, the message is the error's if there is an error and else the
\* failure's, and a record whose status class is passed or skipped has no
\* message key.
C8_CaseMessage ==
  (tc_ret # None /\ tc_ret.method = "as_dict") =>
    LET d == tc_ret.value
    IN /\ ("message" \in DOMAIN d) <=> (tc.error # None \/ tc.failure # None)
       /\ tc.error # None => d.message = tc.error.message
       /\ (tc.error = None /\ tc.failure # None) => d.message = tc.failure.message
       /\ d.icon_class \in {"test-passed", "test-skipped"} => "message" \notin DOMAIN d

(***************************************************************************)
(* SpecSuite: as_dict called on one ReportTestSuite, any number of times   *)
(***************************************************************************)
SuiteCases ==
  { ReportTestCase("t1", 0, None, None, FALSE),
    ReportTestCase("t2", 1, [type |-> "AssertionError", message |-> "boom"], None, FALSE),
    ReportTestCase("t3", 1, None, None, TRUE) }

InitSuite ==
  /\ suite \in {ReportTestSuite(<<66>>, t, e, f, s, 1, cases) :
                  t \in 0..MaxCount, e \in {0, 1}, f \in {0, 1}, s \in 0..MaxCount,
                  cases \in SeqsUpTo(SuiteCases, MaxCases)}
  /\ suite_ret = None
  /\ IdlePipeline /\ IdleRate /\ IdleCase

SuiteAsDict ==
  /\ suite' = suite_as_dict(suite).self
  /\ suite_ret' = suite_as_dict(suite).ret
  /\ UNCHANGED <<pipelineVars, rateVars, caseVars>>

NextSuite == SuiteAsDict
SpecSuite == InitSuite /\ [][NextSuite]_vars

\* C10: as_dict leaves the suite's name, counts, time and sequence of test
\* case objects as they were, so a second as_dict call on the same suite
\* returns, and returns the same record as the first.
C10_AsDictFrame ==
  [][ /\ suite'.name = suite.name
      /\ suite'.tests = suite.tests /\ suite'.errors = suite.errors
      /\ suite'.failures = suite.failures /\ suite'.skipped = suite.skipped
      /\ suite'.time = suite.time
      /\ suite'.testcases = suite.testcases
      /\ suite_ret'.py = "return"
      /\ suite_ret # None => suite_ret' = suite_ret ]_vars

====
